---- MODULE Spec2Model ----
(***************************************************************************)
(* Model of bin/mkpost.py, the post scaffolder of the blog repository.     *)
(*                                                                         *)
(* Strings are sequences of one-character strings, so that slugs, dates,   *)
(* paths and the written template are computed the way the script computes *)
(* them.  Two invocations of the script run against one filesystem and one *)
(* wall clock; each invocation is a sequence of steps that read or write   *)
(* that shared state (isdir, clock read, exists, open, write/close).       *)
(***************************************************************************)
EXTENDS Integers, Sequences, FiniteSets, TLC

\* ------------------------------------------------------------- bounds ---
\* Longest raw title drawn from Alphabet (the example titles are extra).
MaxTitleLen == 1
\* How many times midnight may pass while the invocations run.
MaxTicks == 1

\* ------------------------------------------------------------ strings ---
NL == "\n"

LowerOf ==
  [A |-> "a", B |-> "b", C |-> "c", D |-> "d", E |-> "e", F |-> "f", G |-> "g",
   H |-> "h", I |-> "i", J |-> "j", K |-> "k", L |-> "l", M |-> "m", N |-> "n",
   O |-> "o", P |-> "p", Q |-> "q", R |-> "r", S |-> "s", T |-> "t", U |-> "u",
   V |-> "v", W |-> "w", X |-> "x", Y |-> "y", Z |-> "z"]

UpperOf ==
  [a |-> "A", b |-> "B", c |-> "C", d |-> "D", e |-> "E", f |-> "F", g |-> "G",
   h |-> "H", i |-> "I", j |-> "J", k |-> "K", l |-> "L", m |-> "M", n |-> "N",
   o |-> "O", p |-> "P", q |-> "Q", r |-> "R", s |-> "S", t |-> "T", u |-> "U",
   v |-> "V", w |-> "W", x |-> "X", y |-> "Y", z |-> "Z"]

Digits == <<"0", "1", "2", "3", "4", "5", "6", "7", "8", "9">>

IsUpper(c) == c \in DOMAIN LowerOf
IsLower(c) == c \in DOMAIN UpperOf
IsDigit(c) == \E i \in 1..Len(Digits) : Digits[i] = c
IsLetter(c) == IsUpper(c) \/ IsLower(c)

LowerChar(c) == IF IsUpper(c) THEN LowerOf[c] ELSE c
UpperChar(c) == IF IsLower(c) THEN UpperOf[c] ELSE c

LowerStr(s) == [i \in 1..Len(s) |-> LowerChar(s[i])]
UpperStr(s) == [i \in 1..Len(s) |-> UpperChar(s[i])]

\* The strings of length at most n over the characters cs.
RECURSIVE StringsUpTo(_, _)
StringsUpTo(cs, n) ==
  IF n = 0 THEN {<<>>}
  ELSE LET shorter == StringsUpTo(cs, n - 1)
       IN  shorter \cup {Append(s, c) : s \in {x \in shorter : Len(x) = n - 1},
                                        c \in cs}

\* s split at every occurrence of sep (str.split(sep)): always at least one piece.
RECURSIVE SplitOn(_, _)
SplitOn(s, sep) ==
  IF \A i \in 1..Len(s) : s[i] # sep THEN <<s>>
  ELSE LET k == CHOOSE i \in 1..Len(s) :
                  s[i] = sep /\ \A j \in 1..(i - 1) : s[j] # sep
       IN  <<SubSeq(s, 1, k - 1)>> \o SplitOn(SubSeq(s, k + 1, Len(s)), sep)

\* The pieces joined again with sep between them (sep.join(pieces)).
RECURSIVE JoinWith(_, _)
JoinWith(pieces, sep) ==
  IF Len(pieces) = 0 THEN <<>>
  ELSE IF Len(pieces) = 1 THEN pieces[1]
  ELSE pieces[1] \o <<sep>> \o JoinWith(Tail(pieces), sep)

\* The lines of a text, each one ended by a newline in the text; text after the
\* last newline, if any, is a last unterminated line.
SplitLines(text) ==
  LET pieces == SplitOn(text, NL)
  IN  IF pieces[Len(pieces)] = <<>> THEN SubSeq(pieces, 1, Len(pieces) - 1)
      ELSE pieces

\* ------------------------------------------------------- slugify.slugify ---
\* python-slugify with its default arguments, on the characters modelled here:
\* lowercase, every character outside [-a-z0-9] becomes a hyphen, runs of
\* hyphens collapse to one, leading and trailing hyphens are stripped.
IsSlugChar(c) == IsLower(c) \/ IsDigit(c) \/ c = "-"

Hyphenate(s) == [i \in 1..Len(s) |-> IF IsSlugChar(s[i]) THEN s[i] ELSE "-"]

RECURSIVE CollapseHyphens(_)
CollapseHyphens(s) ==
  IF Len(s) < 2 THEN s
  ELSE IF s[1] = "-" /\ s[2] = "-" THEN CollapseHyphens(Tail(s))
  ELSE <<s[1]>> \o CollapseHyphens(Tail(s))

RECURSIVE StripHyphens(_)
StripHyphens(s) ==
  IF Len(s) = 0 THEN s
  ELSE IF s[1] = "-" THEN StripHyphens(Tail(s))
  ELSE IF s[Len(s)] = "-" THEN StripHyphens(SubSeq(s, 1, Len(s) - 1))
  ELSE s

\* A slugify that forgets to lowercase.
SlugifyKeepCase(text) == StripHyphens(CollapseHyphens(Hyphenate(text)))

Slugify(text) == StripHyphens(CollapseHyphens(Hyphenate(LowerStr(text))))

\* ----------------------------------------------------- titlecase.titlecase ---
\* The titlecase library on one line of text: words are the pieces between
\* blanks; a word with a capital after its first letter is kept, a small word is
\* lowercased, any other word gets its first letter capitalised; a line without
\* lowercase letters is lowercased first; a small word that is the first or the
\* last word is capitalised.
SmallWords ==
  { <<"a">>, <<"a", "n">>, <<"a", "n", "d">>, <<"a", "s">>, <<"a", "t">>,
    <<"b", "u", "t">>, <<"b", "y">>, <<"e", "n">>, <<"f", "o", "r">>,
    <<"i", "f">>, <<"i", "n">>, <<"o", "f">>, <<"o", "n">>, <<"o", "r">>,
    <<"t", "h", "e">>, <<"t", "o">>, <<"v">>, <<"v", "i", "a">>, <<"v", "s">> }

IsPunct(c) == ~IsLetter(c) /\ ~IsDigit(c) /\ c # " "

IsSmallWord(w) == LowerStr(w) \in SmallWords

\* The number of punctuation characters the word starts with.
LeadingPunct(w) ==
  IF \A i \in 1..Len(w) : IsPunct(w[i]) THEN Len(w)
  ELSE (CHOOSE i \in 1..Len(w) :
          ~IsPunct(w[i]) /\ \A j \in 1..(i - 1) : IsPunct(w[j])) - 1

\* UC_ELSEWHERE: after any leading punctuation, letters and then a capital.
UcElsewhere(w) ==
  LET k == LeadingPunct(w)
  IN  \E i \in (k + 2)..Len(w) :
        IsUpper(w[i]) /\ \A j \in (k + 1)..(i - 1) : IsLetter(w[j])

\* CAPFIRST: the first letter after any leading punctuation is capitalised.
CapFirst(w) ==
  LET k == LeadingPunct(w)
  IN  IF k < Len(w) /\ IsLetter(w[k + 1])
      THEN [w EXCEPT ![k + 1] = UpperChar(w[k + 1])]
      ELSE w

TitleWord(w, all_caps) ==
  LET word == IF all_caps THEN LowerStr(w) ELSE w
  IN  IF ~all_caps /\ UcElsewhere(word) THEN word
      ELSE IF IsSmallWord(word) THEN LowerStr(word)
      ELSE CapFirst(word)

\* SMALL_FIRST / SMALL_LAST: a small word at either end is capitalised.
CapSmall(w) == IF IsSmallWord(w) THEN CapFirst(w) ELSE w

Titlecase(text) ==
  LET all_caps == UpperStr(text) = text
      words == SplitOn(text, " ")
      tc_line == [i \in 1..Len(words) |-> TitleWord(words[i], all_caps)]
      n == Len(tc_line)
      ends == [i \in 1..n |-> IF i = 1 \/ i = n THEN CapSmall(tc_line[i])
                                ELSE tc_line[i]]
  IN  JoinWith(ends, " ")

\* ------------------------------------------------- date.isoformat ---
\* A calendar date is a record [year, month, day]; isoformat() prints it as
\* YYYY-MM-DD, each field zero-padded to its width.
RECURSIVE ZeroPad(_, _)
ZeroPad(n, width) ==
  IF width = 0 THEN <<>>
  ELSE ZeroPad(n \div 10, width - 1) \o <<Digits[(n % 10) + 1]>>

IsoFormat(date) ==
  ZeroPad(date.year, 4) \o <<"-">> \o ZeroPad(date.month, 2) \o <<"-">>
    \o ZeroPad(date.day, 2)

\* ------------------------------------------------------------- paths ---
\* A join that forgets the separator.
PathConcat(a, b) == a \o b

\* os.path.join(a, b) on POSIX: an absolute b replaces a; otherwise b is
\* appended, after a "/" unless a is empty or already ends with one.
PathJoin(a, b) ==
  IF Len(b) > 0 /\ b[1] = "/" THEN b
  ELSE IF Len(a) = 0 \/ a[Len(a)] = "/" THEN a \o b
  ELSE a \o <<"/">> \o b

\* The file a path string names: repeated slashes count as one and a trailing
\* slash is dropped (the root stays "/").
RECURSIVE CollapseSlashes(_)
CollapseSlashes(s) ==
  IF Len(s) < 2 THEN s
  ELSE IF s[1] = "/" /\ s[2] = "/" THEN CollapseSlashes(Tail(s))
  ELSE <<s[1]>> \o CollapseSlashes(Tail(s))

Resolve(path) ==
  LET c == CollapseSlashes(path)
  IN  IF Len(c) > 1 /\ c[Len(c)] = "/" THEN SubSeq(c, 1, Len(c) - 1) ELSE c

\* The last component of a path (os.path.basename).
Basename(path) ==
  LET parts == SplitOn(path, "/") IN parts[Len(parts)]

\* ---------------------------------------------------------- template ---
FileName(today, post_slug) == today \o <<"_">> \o post_slug \o <<".", "m", "d">>

TitleKey == <<"T", "i", "t", "l", "e", ":", " ">>
DateKey == <<"D", "a", "t", "e", ":", " ">>
TagsLine ==
  <<"T", "a", "g", "s", ":", " ", "P", "y", "t", "h", "o", "n", ",", " ",
    "P", "e", "l", "i", "c", "a", "n">>
SlugKey == <<"S", "l", "u", "g", ":", " ">>
TextHere == <<"T", "e", "x", "t", " ", "h", "e", "r", "e">>

\* The f-string written to the new file.
Template(post_title, today, post_slug) ==
  TitleKey \o post_title \o <<NL>>
    \o DateKey \o today \o <<NL>>
    \o TagsLine \o <<NL>>
    \o SlugKey \o post_slug \o <<NL>>
    \o <<NL>>
    \o TextHere \o <<NL>>
    \o <<NL>>


\* -------------------------------------------------------------- state ---
VARIABLES
  clock,       \* midnights passed since the first invocation could start
  fs,          \* the regular files: resolved path -> content
  pc,          \* where each invocation is in the script
  raw_title,   \* args.title[0]
  dir,         \* args.dir
  post_slug,   \* the script's variables, <<>> while unbound, <<value>> once bound
  post_title,
  today,
  postpath,
  effect,      \* what the invocation's open() did: none, created or truncated
  fs0          \* the files as they were before any invocation started

vars ==
  <<clock, fs, pc, raw_title, dir, post_slug, post_title, today, postpath,
    effect, fs0>>

\* ------------------------------------------------------ the environment ---
\* The invocations that may run, possibly at the same time.
Procs == {"p1", "p2"}

Alphabet == {"a", "!"}

\* Two example titles that differ in case, punctuation and whitespace only.
HelloWorld == <<"h", "e", "l", "l", "o", " ", "w", "o", "r", "l", "d">>
HelloWorldLoud ==
  <<"H", "e", "l", "l", "o", ",", " ", " ", "W", "o", "r", "l", "d", "!">>

\* The raw titles an invocation may be given (argparse takes any string; the
\* scaffolder's contract asks for a non-empty one).
Titles == (StringsUpTo(Alphabet, MaxTitleLen) \ {<<>>}) \cup {HelloWorld, HelloWorldLoud}

\* The directories that exist, and the --dir arguments tried: the content
\* directory with and without a trailing slash, a path that does not exist, and
\* the path of a regular file.
Directories == {<<"d">>}
RegularFile == <<"f">>
DirArgs == {<<"d">>, <<"d", "/">>, <<"x">>, RegularFile}

\* The day the model starts on; the clock only moves forward.
StartDate == [year |-> 2024, month |-> 3, day |-> 5]
Now == [StartDate EXCEPT !.day = @ + clock]

\* Content of files the scaffolder did not write.
OldContent == <<"o", "l", "d", NL>>

\* A post file that may already be there before any invocation starts.
PriorPath == Resolve(PathJoin(<<"d">>, FileName(IsoFormat(StartDate), <<"a">>)))
PriorContents == {<<>>, OldContent}

Unbound == <<>>
Bound(v) == <<v>>
Val(x) == x[1]

\* A directory check that accepts anything that exists.
IsDirOrFile(path) == Resolve(path) \in Directories \/ Resolve(path) \in DOMAIN fs

\* An existence check that takes an empty file for a missing one.
ExistsNonEmpty(path) ==
  \/ Resolve(path) \in DOMAIN fs /\ fs[Resolve(path)] # <<>>
  \/ Resolve(path) \in Directories

\* An existence check that only sees directories.
ExistsDirOnly(path) == Resolve(path) \in Directories

\* os.path.isdir and os.path.exists.
IsDir(path) == Resolve(path) \in Directories
Exists(path) == Resolve(path) \in DOMAIN fs \/ Resolve(path) \in Directories

\* The file an invocation's postpath names.
Target(p) == Resolve(Val(postpath[p]))

\* ------------------------------------------------------------- actions ---
Init ==
  /\ clock = 0
  /\ \/ fs = (RegularFile :> OldContent)
     \/ \E c \in PriorContents : fs = (RegularFile :> OldContent) @@ (PriorPath :> c)
  /\ pc = [p \in Procs |-> "idle"]
  /\ raw_title = [p \in Procs |-> Unbound]
  /\ dir = [p \in Procs |-> Unbound]
  /\ post_slug = [p \in Procs |-> Unbound]
  /\ post_title = [p \in Procs |-> Unbound]
  /\ today = [p \in Procs |-> Unbound]
  /\ postpath = [p \in Procs |-> Unbound]
  /\ effect = [p \in Procs |-> "none"]
  /\ fs0 = fs

\* Midnight passes.
Tick ==
  /\ clock < MaxTicks
  /\ clock' = clock + 1
  /\ UNCHANGED <<fs, pc, raw_title, dir, post_slug, post_title, today, postpath,
                 effect, fs0>>

\* Lines 23-27: the arguments are parsed and the directory is checked.
Start(p, title, d) ==
  /\ pc[p] = "idle"
  /\ raw_title' = [raw_title EXCEPT ![p] = Bound(title)]
  /\ dir' = [dir EXCEPT ![p] = Bound(d)]
  /\ pc' = [pc EXCEPT ![p] = IF IsDir(d) THEN "slug" ELSE "err_dir"]
  /\ UNCHANGED <<clock, fs, post_slug, post_title, today, postpath, effect, fs0>>

\* Lines 29-33: slug, display title, today's date and the path are computed.
Prepare(p) ==
  /\ pc[p] = "slug"
  /\ LET slug == Slugify(Val(raw_title[p]))
         date == IsoFormat(Now)
     IN  /\ post_slug' = [post_slug EXCEPT ![p] = Bound(slug)]
         /\ post_title' = [post_title EXCEPT ![p] = Bound(Titlecase(Val(raw_title[p])))]
         /\ today' = [today EXCEPT ![p] = Bound(date)]
         /\ postpath' = [postpath EXCEPT ![p] =
                           Bound(PathJoin(Val(dir[p]), FileName(date, slug)))]
  /\ pc' = [pc EXCEPT ![p] = "check"]
  /\ UNCHANGED <<clock, fs, raw_title, dir, effect, fs0>>

\* Lines 34-35: the script refuses a path that exists.
CheckExists(p) ==
  /\ pc[p] = "check"
  /\ pc' = [pc EXCEPT ![p] = IF Exists(Val(postpath[p])) THEN "err_exists" ELSE "open"]
  /\ UNCHANGED <<clock, fs, raw_title, dir, post_slug, post_title, today, postpath,
                 effect, fs0>>

\* Line 37: open(postpath, 'w') creates the file, or empties the one there.
Open(p) ==
  /\ pc[p] = "open"
  /\ fs' = (Target(p) :> <<>>) @@ fs
  /\ effect' = [effect EXCEPT ![p] =
                  IF Target(p) \in DOMAIN fs THEN "truncated" ELSE "created"]
  /\ pc' = [pc EXCEPT ![p] = "write"]
  /\ UNCHANGED <<clock, raw_title, dir, post_slug, post_title, today, postpath, fs0>>

\* What a write of text at offset 0 leaves in a file that held old: the text,
\* then whatever of old lay beyond it.
WriteAtStart(old, text) ==
  IF Len(old) > Len(text) THEN text \o SubSeq(old, Len(text) + 1, Len(old))
  ELSE text

\* A template filled with the date at the time of writing.
PostTextFreshDate(p) == Template(Val(post_title[p]), IsoFormat(Now), Val(post_slug[p]))

\* The text an invocation writes: the template filled from its own variables.
PostText(p) == Template(Val(post_title[p]), Val(today[p]), Val(post_slug[p]))

\* Lines 38-46: the template is written when the with block closes the file.
Write(p) ==
  /\ pc[p] = "write"
  /\ fs' = [fs EXCEPT ![Target(p)] = WriteAtStart(@, PostText(p))]
  /\ pc' = [pc EXCEPT ![p] = "done"]
  /\ UNCHANGED <<clock, raw_title, dir, post_slug, post_title, today, postpath,
                 effect, fs0>>

\* The run ends between open and the flush of the template (an interrupt, a
\* failing write): the opened file stays as open() left it.
Interrupt(p) ==
  /\ pc[p] = "write"
  /\ pc' = [pc EXCEPT ![p] = "err_write"]
  /\ UNCHANGED <<clock, fs, raw_title, dir, post_slug, post_title, today, postpath,
                 effect, fs0>>

Next ==
  \/ Tick
  \/ \E p \in Procs, title \in Titles, d \in DirArgs : Start(p, title, d)
  \/ \E p \in Procs : Prepare(p)
  \/ \E p \in Procs : CheckExists(p)
  \/ \E p \in Procs : Open(p)
  \/ \E p \in Procs : Write(p)
  \/ \E p \in Procs : Interrupt(p)

Spec == Init /\ [][Next]_vars

Terminal == {"done", "err_dir", "err_exists", "err_write"}

\* Invocations run one after the other: none starts while another is running.
SeqStart(p, title, d) ==
  /\ \A q \in Procs \ {p} : pc[q] \in Terminal \cup {"idle"}
  /\ Start(p, title, d)

SeqNext ==
  \/ Tick
  \/ \E p \in Procs, title \in Titles, d \in DirArgs : SeqStart(p, title, d)
  \/ \E p \in Procs : Prepare(p)
  \/ \E p \in Procs : CheckExists(p)
  \/ \E p \in Procs : Open(p)
  \/ \E p \in Procs : Write(p)
  \/ \E p \in Procs : Interrupt(p)

SeqSpec == Init /\ [][SeqNext]_vars

\* -------------------------------------------------------------- claims ---
SameRun(p, q) ==
  /\ raw_title[p] # Unbound /\ raw_title[q] = raw_title[p]
  /\ Resolve(Val(dir[q])) = Resolve(Val(dir[p]))
  /\ today[p] # Unbound /\ today[q] = today[p]

Failed == {"err_dir", "err_exists", "err_write"}

\* C1: a target file that was there before the scaffolder ran is never opened:
\* the invocation gets no further than the existence check, where it fails, and
\* the file keeps its content, whatever that content is; an invocation that
\* failed on the existence check has opened nothing.
ExistingFileKept ==
  \A p \in Procs :
    /\ (postpath[p] # Unbound /\ Target(p) \in DOMAIN fs0) =>
         /\ pc[p] \in {"check", "err_exists"}
         /\ effect[p] = "none"
         /\ Target(p) \in DOMAIN fs
         /\ fs[Target(p)] = fs0[Target(p)]
    /\ pc[p] = "err_exists" => effect[p] = "none"

ExistingFileHit ==
  \E p \in Procs :
    /\ pc[p] = "err_exists"
    /\ Target(p) \in DOMAIN fs0
    /\ fs0[Target(p)] = <<>>

\* C2: with a directory argument that is missing or is not a directory the
\* invocation fails on the directory check: no slug, title, date or path is
\* computed and nothing is opened; while only such invocations have run the
\* files are what they were.
BadDirRejected ==
  /\ \A p \in Procs :
       (dir[p] # Unbound /\ Resolve(Val(dir[p])) \notin Directories) =>
         /\ pc[p] = "err_dir"
         /\ post_slug[p] = Unbound /\ post_title[p] = Unbound
         /\ today[p] = Unbound /\ postpath[p] = Unbound
         /\ effect[p] = "none"
  /\ (\A p \in Procs : pc[p] \in {"idle", "err_dir"}) => fs = fs0

BadDirHit ==
  /\ \E p \in Procs : pc[p] = "err_dir" /\ Val(dir[p]) = RegularFile
  /\ \E p \in Procs : pc[p] = "err_dir" /\ Val(dir[p]) = <<"x">>

\* C3: two invocations with the same title, directory and day never both pass
\* the existence check and both open the target for writing.
BenignRace ==
  \A p, q \in Procs :
    (p # q /\ SameRun(p, q)) => ~(effect[p] # "none" /\ effect[q] # "none")

\* C4: run one after the other with the same title, directory and day, the
\* first invocation that succeeded created the file, and the second fails on the
\* existence check, opens nothing and leaves the files as the first left them.
SecondRunConflicts ==
  \A p, q \in Procs :
    (p # q /\ pc[p] = "done" /\ pc[q] \in Terminal /\ SameRun(p, q)) =>
      /\ effect[p] = "created"
      /\ pc[q] = "err_exists"
      /\ effect[q] = "none"
      /\ fs = (Target(p) :> PostText(p)) @@ fs0

SecondRunHit ==
  \E p, q \in Procs :
    p # q /\ pc[p] = "done" /\ pc[q] = "err_exists" /\ SameRun(p, q)

\* C5: a run that succeeds has created exactly one new file, its target, and a
\* run that fails has changed nothing; no other path is created, changed or
\* removed (a new path is the target of a run that succeeded or is writing it).
OneFileOrNothing ==
  /\ \A p \in Procs :
       /\ pc[p] = "done" => effect[p] = "created"
       /\ pc[p] \in Failed => effect[p] = "none"
  /\ \A path \in DOMAIN fs0 : path \in DOMAIN fs /\ fs[path] = fs0[path]
  /\ \A path \in DOMAIN fs \ DOMAIN fs0 :
       \E p \in Procs : pc[p] \in {"write", "done"} /\ Target(p) = path

\* C6: a target path that the scaffolder opened never exists without holding a
\* complete template.
NoPartialFile ==
  \A p \in Procs :
    (effect[p] # "none" /\ Target(p) \in DOMAIN fs) =>
      \E q \in Procs : effect[q] # "none" /\ fs[Target(p)] = PostText(q)

\* C7: the file of a successful run is directory/date_slug.md, the date being a
\* day the clock showed in YYYY-MM-DD form and the slug that of the raw title;
\* "hello world" on 2024-03-05 in directory d gives d/2024-03-05_hello-world.md.
PathShape ==
  \A p \in Procs :
    pc[p] = "done" =>
      /\ Target(p) \in DOMAIN fs
      /\ Target(p) =
           Resolve(Val(dir[p]) \o <<"/">> \o Val(today[p]) \o <<"_">>
                     \o Slugify(Val(raw_title[p])) \o <<".", "m", "d">>)
      /\ \E k \in 0..clock :
           Val(today[p]) = IsoFormat([StartDate EXCEPT !.day = @ + k])
      /\ (Val(raw_title[p]) = HelloWorld
            /\ Val(today[p]) = <<"2", "0", "2", "4", "-", "0", "3", "-", "0", "5">>) =>
           Target(p) =
             <<"d", "/", "2", "0", "2", "4", "-", "0", "3", "-", "0", "5", "_",
               "h", "e", "l", "l", "o", "-", "w", "o", "r", "l", "d", ".", "m", "d">>

PathShapeHit ==
  /\ \E p \in Procs :
       pc[p] = "done" /\ Val(raw_title[p]) = HelloWorld /\ Val(dir[p]) = <<"d">>
         /\ Val(today[p]) = <<"2", "0", "2", "4", "-", "0", "3", "-", "0", "5">>
  /\ \E p \in Procs : pc[p] = "done" /\ Val(dir[p]) = <<"d", "/">>

\* C8: at the moment an invocation succeeds, its file holds exactly seven lines,
\* each ended by a newline: Title with the display title, Date, Tags with the
\* default tags, Slug, an empty line, "Text here", an empty line.
TemplateWritten ==
  [][\A p \in Procs :
       (pc[p] = "write" /\ pc'[p] = "done") =>
         LET text == fs'[Target(p)]
         IN  /\ text[Len(text)] = NL
             /\ SplitLines(text) =
                  << <<"T", "i", "t", "l", "e", ":", " ">>
                       \o Titlecase(Val(raw_title[p])),
                     <<"D", "a", "t", "e", ":", " ">> \o Val(today[p]),
                     <<"T", "a", "g", "s", ":", " ", "P", "y", "t", "h", "o", "n",
                       ",", " ", "P", "e", "l", "i", "c", "a", "n">>,
                     <<"S", "l", "u", "g", ":", " ">> \o Slugify(Val(raw_title[p])),
                     <<>>,
                     <<"T", "e", "x", "t", " ", "h", "e", "r", "e">>,
                     <<>> >>]_vars

\* C9: after a successful run, a later run in the same directory on the same
\* day with another raw title of the same slug (such as "hello world" and
\* "Hello,  World!") fails on the existence check, opens nothing, and the file
\* still holds the first run's template with the first title; no other file
\* appears.
Colliding(p, q) ==
  \/ post_slug[q] = post_slug[p]
  \/ {Val(raw_title[p]), Val(raw_title[q])} = {HelloWorld, HelloWorldLoud}

SlugCollisionConflicts ==
  \A p, q \in Procs :
    (/\ p # q /\ pc[p] = "done" /\ pc[q] \in Terminal
     /\ raw_title[q] # raw_title[p]
     /\ Resolve(Val(dir[q])) = Resolve(Val(dir[p]))
     /\ today[q] = today[p]
     /\ Colliding(p, q)) =>
      /\ pc[q] = "err_exists"
      /\ effect[q] = "none"
      /\ fs[Target(p)] = PostText(p)
      /\ SplitLines(fs[Target(p)])[1] = TitleKey \o Titlecase(Val(raw_title[p]))
      /\ DOMAIN fs = DOMAIN fs0 \cup {Target(p)}

SlugCollisionHit ==
  \E p, q \in Procs :
    /\ p # q /\ pc[p] = "done" /\ pc[q] = "err_exists"
    /\ raw_title[q] # raw_title[p]
    /\ post_title[q] # post_title[p]
    /\ Target(q) = Target(p)

\* C10: at the moment an invocation succeeds, the Date line of its file carries
\* the date the file name starts with and the Slug line the slug the file name
\* carries, also when the day changed while the invocation ran.
HeadersMatchName ==
  [][\A p \in Procs :
       (pc[p] = "write" /\ pc'[p] = "done") =>
         LET lines == SplitLines(fs'[Target(p)])
             name == Basename(Target(p))
             date == SplitOn(name, "_")[1]
         IN  /\ lines[2] = DateKey \o date
             /\ lines[4] = SlugKey \o SubSeq(name, Len(date) + 2, Len(name) - 3)]_vars

DayChangedDuringRun ==
  \E p \in Procs :
    /\ pc[p] = "done"
    /\ Val(today[p]) # IsoFormat(Now)
    /\ Val(today[p]) = IsoFormat(StartDate)

====
